---- MODULE Spec2Model ----
(***************************************************************************)
(* Onboardly backend (src/backend/index.js): the in-memory registries      *)
(* activeSessions, usageTracking and workflowStates, the POST /onboard     *)
(* pipeline with its server-sent-event stream, POST /extension-opened,     *)
(* POST /track/extension-usage and the poll/read endpoints; and the client *)
(* agent injected into the page (src/unnamed/part_000): its task list, the *)
(* set of completed sub-instructions and the analyzeWithAI evaluations.    *)
(*                                                                         *)
(* Node and the browser run each handler to its next await, so every       *)
(* action below is one synchronous stretch of a handler, a timer callback  *)
(* or an event callback.                                                   *)
(***************************************************************************)
EXTENDS Integers, Sequences, FiniteSets, TLC

(***************************************************************************)
(* Bounds of the model.                                                    *)
(***************************************************************************)
\* requests served in one behaviour: every POST /onboard and POST
\* /extension-opened that passes the handler's checks, and every POST
\* /track/extension-usage
MaxRequests == 3
\* tasks in the list the client agent loads
MaxTasks == 2
\* sub-instructions of one task
MaxSubs == 3
\* analyzeWithAI calls that have started and not returned
MaxAnalyses == 2
\* pending setTimeout(..., 1500) task advances of the client agent
MaxAdvance == 2
\* calls of the widget's startMonitoring in one behaviour
MaxStarts == 3

(***************************************************************************)
(* Inputs.                                                                 *)
(***************************************************************************)
\* req.body.internEmail / req.params.internEmail absent
NoEmail == "<undefined>"
\* req.body.event absent
NoEvent == "<undefined>"

\* participant ids given to POST /onboard: one identity in two casings
OnboardEmails == {"User@Co.com", "user@co.com"}
\* participant ids given to the other endpoints: also an identity no run is
\* created for
LookupEmails == OnboardEmails \cup {"other@co.com"}

EventKinds == {"extension_activated", "training_completed", "step_completed"}

\* String.prototype.toLowerCase on the participant ids above
toLowerCase(e) ==
  CASE e = "User@Co.com" -> "user@co.com"
    [] OTHER -> e

VARIABLES
  activeSessions,  \* Map email -> session, in insertion order: <<[key, chan]>>
  usageTracking,   \* Map email -> tracking record, in insertion order
  workflowStates,  \* Map email -> poll snapshot: <<>> when absent, else <<snapshot>>
  reqs,            \* the POST /onboard requests so far: pipeline position and SSE response
  timers,          \* pending setTimeout(..., 1000) callbacks, in firing order
  now,             \* the wall clock read by new Date(): one tick per request served
  lastPub          \* per run key, the last (step, status) published: <<>> or <<frame>>

vars == <<activeSessions, usageTracking, workflowStates, reqs, timers, now, lastPub>>

\* the client agent
VARIABLES
  tasks,                      \* the loaded tasks: for each its number of subInstructions
  stepCount,                  \* 1-based number of the current task
  completedSubInstructions,   \* Set of 1-based sub-instruction numbers
  analysisInProgress,
  analyses,                   \* analyzeWithAI calls suspended at an await
  advanceTimers,              \* pending setTimeout(..., 1500) task advances
  tasksCompleted,             \* history: the tasks whose last sub-instruction was marked
  completionReports           \* history: times training_completed and POST
                              \* /onboarding/complete were sent

avars == <<tasks, stepCount, completedSubInstructions, analysisInProgress,
           analyses, advanceTimers, tasksCompleted, completionReports>>

\* the dashboard (OnboardingApp)
VARIABLES
  workflow,      \* [nodes, edges]: the status of every node and edge of the graph
  internInfo,    \* email of the intern the dashboard holds: NoEmail for null
  executing,     \* the form is disabled while true
  jiraUrl,       \* a link to the Jira epic is shown
  error,         \* an error text is shown
  streamOpen,    \* the response of POST /onboard is being read
  pipelinePos,   \* frames of the /onboard pipeline delivered on that response
  runEmail,      \* email of the intern sent with the last POST /onboard
  generated      \* the pipeline of that request has stored its workflow

dvars == <<workflow, internInfo, executing, jiraUrl, error, streamOpen, pipelinePos,
           runEmail, generated>>

\* the backend's registry of completed onboardings
VARIABLES
  onboardingCompletions,  \* Map email -> {completed, completedAt}: <<>> when absent
  marked                  \* history, per email: POST /onboarding/complete was served
                          \* after the last reset and the last workflow generation

cvars == <<onboardingCompletions, marked>>

\* the embeddable coach widget (AICoach)
VARIABLES
  isMonitoring,
  captureInterval,  \* handle of the capture timer: 0 for null
  mediaStream,      \* id of the screen-capture stream: 0 for null
  currentStep,
  taskType,         \* config.taskType
  pendingStarts,    \* startMonitoring calls waiting for getDisplayMedia
  activeTimers,     \* handles of the setInterval timers not cleared
  liveStreams,      \* ids of the capture streams whose tracks are not stopped
  startCalls,       \* history: startMonitoring calls made
  lastSetStep       \* history: <<>> or <<argument of the last setStep call>>

wvars == <<isMonitoring, captureInterval, mediaStream, currentStep, taskType,
           pendingStarts, activeTimers, liveStreams, startCalls, lastSetStep>>

\* what the steps of each component leave alone
exceptBackend == <<avars, dvars, wvars, cvars>>
exceptAgent == <<vars, dvars, wvars, cvars>>
exceptDashboard == <<vars, avars, wvars>>
exceptWidget == <<vars, avars, dvars, cvars>>

(***************************************************************************)
(* JavaScript Map, kept as the sequence of its entries in insertion order. *)
(***************************************************************************)
MapIndex(m, k) ==
  IF \E i \in 1..Len(m) : m[i].key = k
  THEN CHOOSE i \in 1..Len(m) : m[i].key = k
  ELSE 0

MapHas(m, k) == MapIndex(m, k) # 0

\* Map.prototype.set: an existing key keeps its place
MapSet(m, k, v) ==
  IF MapHas(m, k)
  THEN [m EXCEPT ![MapIndex(m, k)] = v]
  ELSE Append(m, v)

MapDelete(m, k) ==
  SelectSeq(m, LAMBDA en : en.key # k)

\* for (const [key, value] of m.entries()) if (key.toLowerCase() === lowerEmail) ... break
ScanIndex(m, q) ==
  IF \E i \in 1..Len(m) : toLowerCase(m[i].key) = toLowerCase(q)
  THEN CHOOSE i \in 1..Len(m) :
         /\ toLowerCase(m[i].key) = toLowerCase(q)
         /\ \A j \in 1..(i-1) : toLowerCase(m[j].key) # toLowerCase(q)
  ELSE 0

\* exact match first, then the case-insensitive scan (skipped for a falsy id)
FindIndex(m, q) ==
  IF MapHas(m, q) THEN MapIndex(m, q)
  ELSE IF q # NoEmail THEN ScanIndex(m, q)
  ELSE 0

(***************************************************************************)
(* The SSE response of a request.                                          *)
(***************************************************************************)
Frame(step, status) == <<step, status>>

\* res.write of a data frame: nothing reaches a stream that was ended or
\* whose client is gone
WriteFrame(rs, r, f) ==
  IF rs[r].ended \/ rs[r].closed
  THEN rs
  ELSE [rs EXCEPT ![r].frames = Append(@, f)]

\* res.end()
EndStream(rs, r) == [rs EXCEPT ![r].ended = TRUE]

RECURSIVE WriteFrames(_, _, _)
WriteFrames(rs, r, fs) ==
  IF fs = <<>> THEN rs
  ELSE WriteFrames(WriteFrame(rs, r, Head(fs)), r, Tail(fs))

\* the phase update handed to sendProgress for run key e (or that would have
\* been, where the handler finds no session to push it on); the 'error' frame
\* of the catch block is no phase update
Published(lp, e, f) == [lp EXCEPT ![e] = <<f>>]

\* the client agent when its script has run: no tasks loaded yet
AgentInit ==
  /\ tasks = <<>>
  /\ stepCount = 1
  /\ completedSubInstructions = {}
  /\ analysisInProgress = FALSE
  /\ analyses = <<>>
  /\ advanceTimers = 0
  /\ tasksCompleted = 0
  /\ completionReports = 0

\* the emails typed into the dashboard's form
DashEmails == {"user@co.com", "other@co.com"}

\* the graph the dashboard shows: four nodes in a chain
DashNodes == {"analyzing", "generating", "sending", "onboarded"}

DashEdges ==
  {<<"analyzing", "generating">>, <<"generating", "sending">>, <<"sending", "onboarded">>}

\* every node and every edge pending
getInitialWorkflow ==
  [nodes |-> [n \in DashNodes |-> "pending"],
   edges |-> [e \in DashEdges |-> "pending"]]

\* the dashboard when OnboardingApp is mounted
DashInit ==
  /\ workflow = getInitialWorkflow
  /\ internInfo = NoEmail
  /\ executing = FALSE
  /\ jiraUrl = FALSE
  /\ error = FALSE
  /\ streamOpen = FALSE
  /\ pipelinePos = 0
  /\ runEmail = NoEmail
  /\ generated = FALSE

\* no onboarding is recorded as completed when the server starts
CompletionsInit ==
  /\ onboardingCompletions = [e \in DashEmails |-> <<>>]
  /\ marked = [e \in DashEmails |-> FALSE]

\* the widget when its script has run, with the default configuration
WidgetInit ==
  /\ isMonitoring = FALSE
  /\ captureInterval = 0
  /\ mediaStream = 0
  /\ currentStep = 1
  /\ taskType = "jira"
  /\ pendingStarts = 0
  /\ activeTimers = {}
  /\ liveStreams = {}
  /\ startCalls = 0
  /\ lastSetStep = <<>>

Init ==
  /\ activeSessions = <<>>
  /\ usageTracking = <<>>
  /\ workflowStates = [e \in LookupEmails |-> <<>>]
  /\ reqs = <<>>
  /\ timers = <<>>
  /\ now = 0
  /\ lastPub = [e \in OnboardEmails |-> <<>>]
  /\ AgentInit
  /\ DashInit
  /\ CompletionsInit
  /\ WidgetInit

(***************************************************************************)
(* POST /onboard                                                           *)
(***************************************************************************)
\* the handler up to its first await (a body without prompt, intern.name or
\* intern.email is answered 400 and changes nothing)
Onboard(e) ==
  /\ now < MaxRequests
  /\ now' = now + 1
  /\ LET r == Len(reqs) + 1
         rq == [email |-> e, pc |-> "analyzing", frames |-> <<Frame("analyzing", "running")>>,
                ended |-> FALSE, closed |-> FALSE]
     IN /\ reqs' = Append(reqs, rq)
        /\ activeSessions' = MapSet(activeSessions, e, [key |-> e, chan |-> r])
        /\ timers' = Append(timers, [kind |-> "analyze", chan |-> r, key |-> e])
        /\ lastPub' = Published(lastPub, e, Frame("analyzing", "running"))
  /\ UNCHANGED <<usageTracking, workflowStates>>
  /\ UNCHANGED exceptBackend

\* usageTracking.set(intern.email, {...}) of the pipeline
NewTracking(e) ==
  [key |-> e, internEmail |-> e,
   extensionActivated |-> FALSE, trainingInProgress |-> FALSE, trainingCompleted |-> FALSE,
   createdAt |-> now, firstActivationAt |-> <<>>, trainingCompletedAt |-> <<>>,
   extensionEvents |-> <<>>]

\* the catch block: error frame by sendProgress, session removed, error frame, res.end()
Catch(rs, r) ==
  [EndStream(WriteFrames(rs, r, <<Frame("error", "failed"), Frame("error", "failed")>>), r)
     EXCEPT ![r].pc = "failed"]

OnboardFails(r, rs) ==
  /\ reqs' = Catch(rs, r)
  /\ activeSessions' = MapDelete(activeSessions, reqs[r].email)

\* The awaits of STEP 2, getJiraAccountId (which catches its own errors),
\* generateWorkflowDAG and createJiraWorkflow, follow one another with no read
\* or write of shared state between them: they return (ok) or one of them
\* throws.  On return the tracking record is stored, 'generating' completes,
\* 'sending' starts and createCalendarEvents returns (calOk) or throws.
PipeGenerate(r, ok, calOk) ==
  /\ r \in 1..Len(reqs)
  /\ reqs[r].pc = "generating"
  /\ IF ok
     THEN LET e == reqs[r].email
              rs == WriteFrames(reqs, r, <<Frame("generating", "completed"),
                                           Frame("sending", "running")>>)
          IN /\ usageTracking' = MapSet(usageTracking, e, NewTracking(e))
             /\ lastPub' = Published(lastPub, e, Frame("sending", "running"))
             /\ IF calOk
                THEN /\ reqs' = [rs EXCEPT ![r].pc = "email"]
                     /\ UNCHANGED activeSessions
                ELSE OnboardFails(r, rs)
     ELSE /\ OnboardFails(r, reqs)
          /\ UNCHANGED <<usageTracking, lastPub>>
  /\ UNCHANGED <<workflowStates, timers, now>>
  /\ UNCHANGED exceptBackend

\* await sendWelcomeEmail(...) returns or throws; on return 'sending' completes,
\* the keep-alive timer is cleared, the 'done' frame is written, the stream is
\* ended and the session removed
PipeEmail(r, ok) ==
  /\ r \in 1..Len(reqs)
  /\ reqs[r].pc = "email"
  /\ IF ok
     THEN /\ reqs' = [EndStream(WriteFrames(reqs, r, <<Frame("sending", "completed"),
                                                      Frame("done", "completed")>>), r)
                        EXCEPT ![r].pc = "done"]
          /\ activeSessions' = MapDelete(activeSessions, reqs[r].email)
          /\ lastPub' = Published(lastPub, reqs[r].email, Frame("sending", "completed"))
     ELSE /\ OnboardFails(r, reqs)
          /\ UNCHANGED lastPub
  /\ UNCHANGED <<usageTracking, workflowStates, timers, now>>
  /\ UNCHANGED exceptBackend

\* the close of the connection taken for a failure of the initiation
ReqCloseAborts(r) ==
  /\ r \in 1..Len(reqs)
  /\ ~reqs[r].closed
  /\ reqs' = [reqs EXCEPT ![r].closed = TRUE, ![r].pc = "failed"]
  /\ activeSessions' = MapDelete(activeSessions, reqs[r].email)
  /\ UNCHANGED <<usageTracking, workflowStates, timers, now, lastPub>>
  /\ UNCHANGED exceptBackend

\* req.on('close'): the client went away, or the response has finished
ReqClose(r) ==
  /\ r \in 1..Len(reqs)
  /\ ~reqs[r].closed
  /\ reqs' = [reqs EXCEPT ![r].closed = TRUE]
  /\ activeSessions' = MapDelete(activeSessions, reqs[r].email)
  /\ UNCHANGED <<usageTracking, workflowStates, timers, now, lastPub>>
  /\ UNCHANGED exceptBackend

(***************************************************************************)
(* Timers.  Every setTimeout of the backend waits 1000 ms, and Node fires  *)
(* timers of equal delay in the order they were set.                       *)
(***************************************************************************)
\* /onboard: the 1000 ms "thinking time" is over
AfterAnalyzing(t) ==
  /\ reqs' = [WriteFrames(reqs, t.chan, <<Frame("analyzing", "completed"),
                                          Frame("generating", "running")>>)
                EXCEPT ![t.chan].pc = "generating"]
  /\ lastPub' = Published(lastPub, t.key, Frame("generating", "running"))
  /\ UNCHANGED activeSessions

\* /extension-opened: 'onboarded' frame, 'done' frame, res.end(), session removed
AfterOpened(t) ==
  /\ reqs' = EndStream(WriteFrames(reqs, t.chan, <<Frame("onboarded", "completed"),
                                                   Frame("done", "completed")>>), t.chan)
  /\ activeSessions' = MapDelete(activeSessions, t.key)
  /\ lastPub' = Published(lastPub, reqs[t.chan].email, Frame("onboarded", "completed"))

\* training_completed: res.end(), session removed
AfterCompleted(t) ==
  /\ reqs' = EndStream(reqs, t.chan)
  /\ activeSessions' = MapDelete(activeSessions, t.key)
  /\ UNCHANGED lastPub

TimerFire ==
  /\ timers # <<>>
  /\ LET t == Head(timers)
     IN CASE t.kind = "analyze" -> AfterAnalyzing(t)
          [] t.kind = "opened" -> AfterOpened(t)
          [] t.kind = "completed" -> AfterCompleted(t)
  /\ timers' = Tail(timers)
  /\ UNCHANGED <<usageTracking, workflowStates, now>>
  /\ UNCHANGED exceptBackend

(***************************************************************************)
(* POST /extension-opened                                                  *)
(***************************************************************************)
ExtensionOpened(q) ==
  /\ q # NoEmail                      \* else 400
  /\ MapHas(activeSessions, q)        \* else 404
  /\ now < MaxRequests
  /\ now' = now + 1
  /\ LET s == activeSessions[MapIndex(activeSessions, q)]
     IN /\ reqs' = WriteFrame(reqs, s.chan, Frame("opened", "completed"))
        /\ timers' = Append(timers, [kind |-> "opened", chan |-> s.chan, key |-> q])
        /\ lastPub' = Published(lastPub, reqs[s.chan].email, Frame("opened", "completed"))
  /\ UNCHANGED <<activeSessions, usageTracking, workflowStates>>
  /\ UNCHANGED exceptBackend

(***************************************************************************)
(* POST /track/extension-usage                                             *)
(***************************************************************************)
\* the snapshot stored for polling by the activation branch
ActivationSnapshot(t) ==
  [step |-> "onboarding", status |-> "running",
   extensionActivated |-> TRUE, trainingInProgress |-> TRUE, timestamp |-> t]

\* the activation branch recording the time and leaving the flag as it was
ActivateWithoutFlag(tr, t) ==
  [tr EXCEPT !.firstActivationAt = <<t>>,
             !.trainingInProgress = TRUE]

\* STATE FLIP 0->1 applied to the tracking record
Activate(tr, t) ==
  [tr EXCEPT !.extensionActivated = TRUE,
             !.firstActivationAt = <<t>>,
             !.trainingInProgress = TRUE]

\* the completion branch flipping the activation flag back as well
CompleteResetsActivation(tr, t) ==
  [tr EXCEPT !.extensionActivated = FALSE,
             !.trainingInProgress = FALSE,
             !.trainingCompleted = TRUE,
             !.trainingCompletedAt = <<t>>]

\* STATE FLIP 1->0 applied to the tracking record
Complete(tr, t) ==
  [tr EXCEPT !.trainingInProgress = FALSE,
             !.trainingCompleted = TRUE,
             !.trainingCompletedAt = <<t>>]

\* the entry put at the front of the log (unshift for push)
LogEventFirst(tr, ev) ==
  [tr EXCEPT !.extensionEvents = <<ev>> \o @]

\* tracking.extensionEvents.push({event, website, step, timestamp}): the entry
\* is kept by its event kind
LogEvent(tr, ev) ==
  [tr EXCEPT !.extensionEvents = Append(@, ev)]

\* the activation branch without its !tracking.extensionActivated test
ActivatesEveryTime(tr, ev) == ev = "extension_activated"

Activates(tr, ev) == ~tr.extensionActivated /\ ev = "extension_activated"

\* the completion branch taken for every event that is not an activation
CompletesOnOtherEvents(tr, ev) == ev # "extension_activated"

Completes(tr, ev) == ev = "training_completed"

\* no run for q: a run record stored for it on the spot
TrackCreatesRun(q) ==
  /\ usageTracking' = Append(usageTracking, NewTracking(q))
  /\ UNCHANGED <<activeSessions, workflowStates, reqs, timers, lastPub>>

\* no run for q, by exact match or case-insensitively: return
\* res.status(404).json(...)
TrackNotFound(q) ==
  UNCHANGED <<activeSessions, usageTracking, workflowStates, reqs, timers, lastPub>>

\* the run was found: the event is logged, the two STATE FLIP branches run and
\* the answer is { success: true, tracked: true }
TrackFound(q, ev) ==
  LET i == FindIndex(usageTracking, q)
  IN /\ LET tr == usageTracking[i]
            t == now + 1
            act == Activates(tr, ev)
            cmp == Completes(tr, ev)
            tr1 == LogEvent(tr, ev)
            tr2 == IF act THEN Activate(tr1, t) ELSE tr1
            tr3 == IF cmp THEN Complete(tr2, t) ELSE tr2
            \* activation: session by exact match, then case-insensitively
            sa == FindIndex(activeSessions, q)
            \* completion: session by exact match only
            sc == MapIndex(activeSessions, q)
            rs1 == IF act /\ sa # 0
                   THEN WriteFrames(reqs, activeSessions[sa].chan,
                                    <<Frame("opened", "completed"),
                                      Frame("onboarding", "running")>>)
                   ELSE reqs
            rs2 == IF cmp /\ sc # 0
                   THEN WriteFrames(rs1, activeSessions[sc].chan,
                                    <<Frame("onboarding", "completed"),
                                      Frame("onboarded", "completed")>>)
                   ELSE rs1
        IN /\ usageTracking' = [usageTracking EXCEPT ![i] = tr3]
           /\ workflowStates' = IF act
                                THEN [workflowStates EXCEPT ![q] = <<ActivationSnapshot(t)>>]
                                ELSE workflowStates
           /\ reqs' = rs2
           /\ timers' = IF cmp /\ sc # 0
                        THEN Append(timers, [kind |-> "completed",
                                             chan |-> activeSessions[sc].chan, key |-> q])
                        ELSE timers
           /\ lastPub' = IF act
                         THEN Published(lastPub, tr.internEmail, Frame("onboarding", "running"))
                         ELSE IF cmp
                         THEN Published(lastPub, tr.internEmail, Frame("onboarded", "completed"))
                         ELSE lastPub
     /\ UNCHANGED activeSessions

Track(q, ev) ==
  /\ now < MaxRequests
  /\ now' = now + 1
  /\ IF FindIndex(usageTracking, q) = 0
     THEN TrackNotFound(q)
     ELSE TrackFound(q, ev)
  /\ UNCHANGED exceptBackend

(***************************************************************************)
(* The read endpoints.  Each answers from the registries and changes       *)
(* nothing; NotFound is the 404 answer.                                    *)
(***************************************************************************)
NotFound == [status |-> 404]

\* the run POST /track/extension-usage resolves for q
TrackLookup(q) ==
  IF FindIndex(usageTracking, q) = 0 THEN NotFound
  ELSE [status |-> 200, run |-> usageTracking[FindIndex(usageTracking, q)].key]

\* GET /extension/tasks/:internEmail/:platform, as far as the run it resolves
ExtensionTasks(q) ==
  IF FindIndex(usageTracking, q) = 0 THEN NotFound
  ELSE [status |-> 200, run |-> usageTracking[FindIndex(usageTracking, q)].key]

\* GET /extension/config/:internEmail
ExtensionConfig(q) ==
  IF ~MapHas(usageTracking, q) THEN NotFound
  ELSE [status |-> 200, run |-> usageTracking[MapIndex(usageTracking, q)].key]

\* GET /extension/state/:internEmail
ExtensionState(q) ==
  IF ~MapHas(usageTracking, q) THEN NotFound
  ELSE LET tr == usageTracking[MapIndex(usageTracking, q)]
       IN [status |-> 200, run |-> tr.key,
           state |-> [extensionActivated |-> tr.extensionActivated,
                      trainingInProgress |-> tr.trainingInProgress,
                      trainingCompleted |-> tr.trainingCompleted,
                      firstActivationAt |-> tr.firstActivationAt,
                      trainingCompletedAt |-> tr.trainingCompletedAt]]

\* GET /workflow/state/:internEmail
WorkflowState(q) ==
  IF ~MapHas(usageTracking, q) THEN NotFound
  ELSE LET tr == usageTracking[MapIndex(usageTracking, q)]
       IN [status |-> 200, run |-> tr.key,
           workflowState |-> IF workflowStates[q] # <<>>
                             THEN [step |-> workflowStates[q][1].step,
                                   status |-> workflowStates[q][1].status]
                             ELSE [step |-> "opened", status |-> "running"],
           tracking |-> [extensionActivated |-> tr.extensionActivated,
                         trainingInProgress |-> tr.trainingInProgress,
                         trainingCompleted |-> tr.trainingCompleted,
                         firstActivationAt |-> tr.firstActivationAt,
                         trainingCompletedAt |-> tr.trainingCompletedAt]]

Next ==
  \/ \E e \in OnboardEmails : Onboard(e)
  \/ \E r \in 1..MaxRequests, ok \in BOOLEAN, calOk \in BOOLEAN : PipeGenerate(r, ok, calOk)
  \/ \E r \in 1..MaxRequests, ok \in BOOLEAN : PipeEmail(r, ok)
  \/ \E r \in 1..MaxRequests : ReqClose(r)
  \/ TimerFire
  \/ \E q \in LookupEmails \cup {NoEmail} : ExtensionOpened(q)
  \/ \E q \in LookupEmails \cup {NoEmail}, ev \in EventKinds \cup {NoEvent} : Track(q, ev)

Spec == Init /\ [][Next]_vars

TypeOK ==
  /\ now \in 0..MaxRequests
  /\ Len(reqs) <= MaxRequests
  /\ \A i \in 1..Len(usageTracking) : usageTracking[i].key \in OnboardEmails
  /\ \A i \in 1..Len(activeSessions) : activeSessions[i].chan \in 1..Len(reqs)

(***************************************************************************)
(* The client agent (src/unnamed/part_000).                                *)
(***************************************************************************)
\* the task lists GET /extension/tasks can return: tasks.map keeps of each
\* task its subInstructions, here their number
TaskLists == UNION {[1..n -> 0..MaxSubs] : n \in 1..MaxTasks}

\* A feedback text is kept as the set of the substrings it includes among
\* those analyzeWithAI looks for, after toLowerCase.
Feedbacks ==
  { {},
    {"step"},
    {"great!", "!"},
    {"great!", "!", "step"},
    {"perfect!", "!", "step"},
    {"excellent!", "!", "step", "proof:"},
    {"done!", "!", "step"},
    {"completed"},
    {"completed", "!"},
    {"completed", "!", "proof:"} }

\* data.proof: its length, 0 when the field is absent
ProofLengths == {0, 10, 11}

\* what the awaited fetch and response.json() give: ok is FALSE when fetch
\* throws or is aborted, the status is not OK or the body is no JSON; feedback
\* is <<>> when data.feedback is absent or empty; taskComplete is the flag
\* analyzeWithAI reads from data.taskComplete or from the JSON inside the
\* feedback, false when data.error is set
Responses ==
  {[ok |-> FALSE, feedback |-> <<>>, proof |-> 0, taskComplete |-> FALSE]} \cup
  [ok : {TRUE}, feedback : {<<>>} \cup {<<f>> : f \in Feedbacks}, proof : ProofLengths,
   taskComplete : BOOLEAN]

\* captureScreenshot resolves to null ("none"), to the screenshot analysed
\* last ("same", and no click within 2 seconds), or to one to analyse ("new")
Screenshots == {"none", "same", "new"}

RemoveAt(s, a) == SubSeq(s, 1, a - 1) \o SubSeq(s, a + 1, Len(s))

\* the highest sub-instruction that is not completed, 0-based, or -1
LastIncompleteStep(n, done) ==
  IF \E idx \in 0..(n - 1) : (idx + 1) \notin done
  THEN CHOOSE idx \in 0..(n - 1) :
         /\ (idx + 1) \notin done
         /\ \A j \in (idx + 1)..(n - 1) : (j + 1) \in done
  ELSE -1

\* subInstructions.findIndex((_, idx) => !completedSubInstructions.has(idx + 1))
\* on a task of n sub-instructions
NextIncompleteStep(n, done) ==
  IF \E idx \in 0..(n - 1) : (idx + 1) \notin done
  THEN CHOOSE idx \in 0..(n - 1) :
         /\ (idx + 1) \notin done
         /\ \A j \in 0..(idx - 1) : (j + 1) \in done
  ELSE -1

HasStrongCompletion(fb) ==
  \/ "great!" \in fb /\ "step" \in fb
  \/ "perfect!" \in fb /\ "step" \in fb
  \/ "excellent!" \in fb /\ "step" \in fb
  \/ "completed" \in fb /\ "!" \in fb
  \/ "done!" \in fb /\ "step" \in fb

\* data.proof && data.proof.length > 10
HasProof(len) == len > 10

ProofInFeedback(fb) == "proof:" \in fb

\* the completion phrase alone taken for enough
MarksWithoutProof(resp) ==
  /\ resp.feedback # <<>>
  /\ HasStrongCompletion(resp.feedback[1])

\* the response makes analyzeWithAI mark a sub-instruction
MarksComplete(resp) ==
  /\ resp.feedback # <<>>
  /\ HasStrongCompletion(resp.feedback[1])
  /\ HasProof(resp.proof) \/ ProofInFeedback(resp.feedback[1])

\* loadTasksFromBackend: the task list arrives (a failed fetch changes nothing)
LoadTasks(ts) ==
  /\ tasks = <<>>
  /\ tasks' = ts
  /\ UNCHANGED <<stepCount, completedSubInstructions, analysisInProgress,
                 analyses, advanceTimers, tasksCompleted, completionReports>>
  /\ UNCHANGED exceptAgent

\* the click listener, at least MIN_ANALYSIS_INTERVAL after the last analysis
\* began: the flag is reset and analyzeWithAI is set to run 300 ms later
Click ==
  /\ analysisInProgress' = FALSE
  /\ UNCHANGED <<tasks, stepCount, completedSubInstructions, analyses, advanceTimers,
                 tasksCompleted, completionReports>>
  /\ UNCHANGED exceptAgent

\* analyzeWithAI, called by setInterval or after a click, up to
\* await captureScreenshot()
AnalyzeStart ==
  /\ ~analysisInProgress
  /\ stepCount <= Len(tasks)
  /\ Len(analyses) < MaxAnalyses
  /\ analysisInProgress' = TRUE
  /\ analyses' = Append(analyses, [pc |-> "shot", task |-> 0, sub |-> 0])
  /\ UNCHANGED <<tasks, stepCount, completedSubInstructions, advanceTimers, tasksCompleted,
                 completionReports>>
  /\ UNCHANGED exceptAgent

\* analyzeWithAI returns: analysisInProgress = false
AnalyzeReturns(a) ==
  /\ analysisInProgress' = FALSE
  /\ analyses' = RemoveAt(analyses, a)

\* captureScreenshot has resolved: without a screenshot to analyse the call
\* returns; else the request is built from the current task and its first
\* incomplete sub-instruction and fetch is awaited.  With stepCount past the
\* last task tasks[stepCount - 1] is undefined, reading its subInstructions
\* throws and the catch block returns.
Screenshot(a, shot) ==
  /\ a \in 1..Len(analyses)
  /\ analyses[a].pc = "shot"
  /\ IF shot = "new" /\ stepCount <= Len(tasks)
     THEN /\ analyses' =
               [analyses EXCEPT ![a] =
                  [pc |-> "fetch", task |-> stepCount,
                   sub |-> NextIncompleteStep(tasks[stepCount], completedSubInstructions) + 1]]
          /\ UNCHANGED analysisInProgress
     ELSE AnalyzeReturns(a)
  /\ UNCHANGED <<tasks, stepCount, completedSubInstructions, advanceTimers, tasksCompleted,
                 completionReports>>
  /\ UNCHANGED exceptAgent

\* the all-tasks completion branch leaving stepCount on the last task
StaysOnLastTask(step) == step

\* stepCount++ of the all-tasks completion branch
AfterLastTask(step) == step + 1

\* the sub-instructions completed after the response: the first incomplete
\* one of the task current now is added when the response marks completion
Completed(resp) ==
  LET n == IF stepCount <= Len(tasks) THEN tasks[stepCount] ELSE 0
      nextIncompleteStep == NextIncompleteStep(n, completedSubInstructions)
  IN IF n > 0 /\ nextIncompleteStep # -1 /\ MarksComplete(resp)
     THEN completedSubInstructions \cup {nextIncompleteStep + 1}
     ELSE completedSubInstructions

\* the response has arrived.  A failed one goes to the catch block.  Else a
\* sub-instruction may be marked; when all of the current task are marked,
\* the task advance is set to run 1500 ms later, or, on the last task,
\* stepCount is incremented at once and completion is reported: logAction
\* sends the training_completed tracking event and POST /onboarding/complete
\* is sent.
Respond(a, resp) ==
  /\ a \in 1..Len(analyses)
  /\ analyses[a].pc = "fetch"
  /\ AnalyzeReturns(a)
  /\ IF resp.ok
     THEN LET n == IF stepCount <= Len(tasks) THEN tasks[stepCount] ELSE 0
              done == Completed(resp)
              allSubInstructionsComplete == n > 0 /\ Cardinality(done) = n
          IN /\ completedSubInstructions' = done
             /\ tasksCompleted' = IF /\ allSubInstructionsComplete
                                     /\ done # completedSubInstructions
                                  THEN tasksCompleted + 1
                                  ELSE tasksCompleted
             /\ IF allSubInstructionsComplete /\ stepCount < Len(tasks)
                THEN /\ advanceTimers < MaxAdvance
                     /\ advanceTimers' = advanceTimers + 1
                     /\ UNCHANGED <<stepCount, completionReports>>
                ELSE IF allSubInstructionsComplete /\ stepCount = Len(tasks)
                THEN /\ stepCount' = AfterLastTask(stepCount)
                     /\ completionReports' = completionReports + 1
                     /\ UNCHANGED advanceTimers
                ELSE UNCHANGED <<stepCount, advanceTimers, completionReports>>
     ELSE UNCHANGED <<stepCount, completedSubInstructions, advanceTimers, tasksCompleted,
                      completionReports>>
  /\ UNCHANGED tasks
  /\ UNCHANGED exceptAgent

\* the 1500 ms timer of the task advance
AdvanceFire ==
  /\ advanceTimers > 0
  /\ advanceTimers' = advanceTimers - 1
  /\ stepCount' = stepCount + 1
  /\ completedSubInstructions' = {}
  /\ UNCHANGED <<tasks, analysisInProgress, analyses, tasksCompleted, completionReports>>
  /\ UNCHANGED exceptAgent

AgentNext ==
  \/ \E ts \in TaskLists : LoadTasks(ts)
  \/ Click
  \/ AnalyzeStart
  \/ \E a \in 1..MaxAnalyses, shot \in Screenshots : Screenshot(a, shot)
  \/ \E a \in 1..MaxAnalyses, resp \in Responses : Respond(a, resp)
  \/ AdvanceFire

SpecAgent == Init /\ [][AgentNext]_avars

AgentTypeOK ==
  /\ tasks = <<>> \/ tasks \in TaskLists
  /\ stepCount \in 1..(MaxTasks + 1 + MaxAdvance)
  /\ completedSubInstructions \subseteq 1..MaxSubs
  /\ analysisInProgress \in BOOLEAN
  /\ Len(analyses) <= MaxAnalyses
  /\ advanceTimers \in 0..MaxAdvance
  /\ tasksCompleted \in 0..MaxTasks
  /\ completionReports \in 0..1

(***************************************************************************)
(* The dashboard (src/unnamed/part_004, OnboardingApp): the workflow graph *)
(* updated from the frames of the POST /onboard response and from the poll *)
(* of GET /onboarding/status/:email, together with the backend's registry  *)
(* onboardingCompletions (src/backend/index.js) that the poll reads.  The  *)
(* progress message is display only and left out.                          *)
(***************************************************************************)
\* the frames the /onboard handler writes when no step fails, in its order
PipelineFrames ==
  <<Frame("analyzing", "running"), Frame("analyzing", "completed"),
    Frame("generating", "running"), Frame("generating", "completed"),
    Frame("sending", "running"), Frame("sending", "completed"),
    Frame("done", "completed")>>

\* the frames written on the same response by the handler's catch block, by
\* POST /extension-opened and its timer and by POST /track/extension-usage,
\* at any moment while the response is open
EventFrames ==
  {Frame("error", "failed"), Frame("opened", "completed"),
   Frame("onboarding", "running"), Frame("onboarding", "completed"),
   Frame("onboarded", "completed"), Frame("done", "completed")}

\* the setWorkflow updater of the progress callback: the node named by the
\* frame takes the frame's status; a running node lights its incoming edge, a
\* completed node its outgoing edge
ApplyProgress(wf, step, status) ==
  [nodes |-> [n \in DashNodes |-> IF n = step THEN status ELSE wf.nodes[n]],
   edges |-> [e \in DashEdges |->
                IF e[2] = step /\ status = "running" THEN "running"
                ELSE IF e[1] = step /\ status = "completed" THEN "completed"
                ELSE wf.edges[e]]]

\* the setWorkflow updater of the poll: node 'onboarded' and the edge into it
\* are completed
MarkOnboarded(wf) ==
  [nodes |-> [n \in DashNodes |-> IF n = "onboarded" THEN "completed" ELSE wf.nodes[n]],
   edges |-> [e \in DashEdges |-> IF e[2] = "onboarded" THEN "completed" ELSE wf.edges[e]]]

\* handleGenerateWorkflow(prompt) with the intern the dashboard holds: without
\* one it alerts and returns; else the graph is reset and POST /onboard is sent
handleGenerateWorkflow ==
  IF internInfo = NoEmail
  THEN UNCHANGED <<workflow, executing, jiraUrl, error, streamOpen, pipelinePos,
                   runEmail, generated>>
  ELSE /\ workflow' = getInitialWorkflow
       /\ executing' = TRUE
       /\ jiraUrl' = FALSE
       /\ error' = FALSE
       /\ streamOpen' = TRUE
       /\ pipelinePos' = 0
       /\ runEmail' = internInfo
       /\ generated' = FALSE

\* the form is submitted with email e in its field, NoEmail when the name or
\* the email is left empty (the button is disabled while executing; a
\* submission while the previous response is still being read is not
\* modelled): onSubmit runs with the intern held so far, then the intern of
\* the form is handed to the dashboard
handleSubmit(e) ==
  /\ ~executing
  /\ ~streamOpen
  /\ handleGenerateWorkflow
  /\ internInfo' = IF e # NoEmail THEN e ELSE internInfo
  /\ UNCHANGED cvars
  /\ UNCHANGED exceptDashboard

\* the frames of the pipeline that carry jiraEpicUrl
CarriesJiraUrl(pos) == pos \in {4, 7}

\* the progress callback for one frame read from the response, url telling
\* whether the frame carries jiraEpicUrl; 'done' resolves and 'error' rejects
\* the request, whose finally block clears executing, and the server ends the
\* response after either
onProgress(f, url) ==
  /\ workflow' = ApplyProgress(workflow, f[1], f[2])
  /\ jiraUrl' = (jiraUrl \/ url)
  /\ error' = (error \/ f[1] = "error")
  /\ executing' = IF f = Frame("sending", "completed") \/ f[1] \in {"done", "error"}
                  THEN FALSE
                  ELSE executing
  /\ streamOpen' = (f[1] \notin {"done", "error"})

\* the workflow is stored without touching the registry
KeptOnGeneration(m, e) == m

\* if (onboardingCompletions.has(intern.email)) onboardingCompletions.delete(...)
\* of POST /onboard, once the workflow is generated
ResetOnGeneration(m, e) == IF m[e] # <<>> THEN [m EXCEPT ![e] = <<>>] ELSE m

\* the pipeline of the dashboard's request has generated its workflow and
\* stored the run: the completion recorded for the intern is dropped.  This
\* comes before 'generating completed' is written (a pipeline still running
\* for an earlier submission of the dashboard is not modelled).
OnboardGenerated ==
  /\ runEmail # NoEmail
  /\ ~generated
  /\ ~error
  /\ pipelinePos <= 3
  /\ generated' = TRUE
  /\ onboardingCompletions' = ResetOnGeneration(onboardingCompletions, runEmail)
  /\ marked' = [marked EXCEPT ![runEmail] = FALSE]
  /\ UNCHANGED <<workflow, internInfo, executing, jiraUrl, error, streamOpen, pipelinePos,
                 runEmail>>
  /\ UNCHANGED exceptDashboard

\* the next frame of the pipeline arrives
PipelineProgress ==
  /\ streamOpen
  /\ pipelinePos < Len(PipelineFrames)
  /\ pipelinePos + 1 >= 4 => generated
  /\ onProgress(PipelineFrames[pipelinePos + 1], CarriesJiraUrl(pipelinePos + 1))
  /\ pipelinePos' = pipelinePos + 1
  /\ UNCHANGED <<internInfo, runEmail, generated>>
  /\ UNCHANGED cvars
  /\ UNCHANGED exceptDashboard

\* a frame of another handler arrives
EventProgress(f) ==
  /\ streamOpen
  /\ onProgress(f, FALSE)
  /\ UNCHANGED <<internInfo, pipelinePos, runEmail, generated>>
  /\ UNCHANGED cvars
  /\ UNCHANGED exceptDashboard

\* the response ends without a final frame (the connection is lost, or the
\* server ended it after training_completed): the request resolves
StreamEnds ==
  /\ streamOpen
  /\ streamOpen' = FALSE
  /\ executing' = FALSE
  /\ UNCHANGED <<workflow, internInfo, jiraUrl, error, pipelinePos, runEmail, generated>>
  /\ UNCHANGED cvars
  /\ UNCHANGED exceptDashboard

\* the answer of GET /onboarding/status/:email: the stored entry, or
\* { completed: false } with completedAt undefined and answered as null
OnboardingStatus(e) ==
  LET status == IF onboardingCompletions[e] # <<>>
                THEN onboardingCompletions[e][1]
                ELSE [completed |-> FALSE, completedAt |-> "undefined"]
  IN [email |-> e,
      completed |-> status.completed,
      completedAt |-> IF status.completedAt = "undefined" THEN "null" ELSE status.completedAt]

\* POST /onboarding/complete with email e and completedAt at in its body, <<>>
\* when left out (400 without email)
CompleteOnboarding(e, at) ==
  /\ IF e = NoEmail
     THEN UNCHANGED cvars
     ELSE /\ onboardingCompletions' =
               [onboardingCompletions EXCEPT ![e] =
                  <<[completed |-> TRUE,
                     completedAt |-> IF at # <<>> THEN at[1] ELSE "server time"]>>]
          /\ marked' = [marked EXCEPT ![e] = TRUE]
  /\ UNCHANGED dvars
  /\ UNCHANGED exceptDashboard

\* POST /onboarding/reset with email e (400 without email)
ResetOnboarding(e) ==
  /\ IF e = NoEmail
     THEN UNCHANGED cvars
     ELSE /\ onboardingCompletions' = [onboardingCompletions EXCEPT ![e] = <<>>]
          /\ marked' = [marked EXCEPT ![e] = FALSE]
  /\ UNCHANGED dvars
  /\ UNCHANGED exceptDashboard

\* one poll of GET /onboarding/status/:email has answered; the dashboard polls
\* once it holds an intern
checkCompletion ==
  /\ internInfo # NoEmail
  /\ workflow' = IF OnboardingStatus(internInfo).completed
                 THEN MarkOnboarded(workflow)
                 ELSE workflow
  /\ UNCHANGED <<internInfo, executing, jiraUrl, error, streamOpen, pipelinePos,
                 runEmail, generated>>
  /\ UNCHANGED cvars
  /\ UNCHANGED exceptDashboard

DashNext ==
  \/ \E e \in DashEmails \cup {NoEmail} : handleSubmit(e)
  \/ PipelineProgress
  \/ \E f \in EventFrames : EventProgress(f)
  \/ StreamEnds
  \/ checkCompletion
  \/ OnboardGenerated
  \/ \E e \in DashEmails \cup {NoEmail}, at \in {<<>>, <<"client time">>} : CompleteOnboarding(e, at)
  \/ \E e \in DashEmails \cup {NoEmail} : ResetOnboarding(e)

SpecDashboard == Init /\ [][DashNext]_<<dvars, cvars>>

DashTypeOK ==
  /\ workflow.nodes \in [DashNodes -> {"pending", "running", "completed", "failed"}]
  /\ workflow.edges \in [DashEdges -> {"pending", "running", "completed"}]
  /\ internInfo \in DashEmails \cup {NoEmail}
  /\ executing \in BOOLEAN
  /\ jiraUrl \in BOOLEAN
  /\ error \in BOOLEAN
  /\ streamOpen \in BOOLEAN
  /\ pipelinePos \in 0..Len(PipelineFrames)
  /\ runEmail \in DashEmails \cup {NoEmail}
  /\ generated \in BOOLEAN
  /\ \A e \in DashEmails :
       /\ onboardingCompletions[e] \in
            {<<>>} \cup {<<[completed |-> TRUE, completedAt |-> at]>> :
                           at \in {"client time", "server time"}}
       /\ marked[e] \in BOOLEAN

(***************************************************************************)
(* The embeddable coach widget (src/webapp/ai-coach-widget.js): monitoring *)
(* with its capture timer and screen-capture stream, and the step counter. *)
(* captureAndAnalyze only shows a panel and is left out.                   *)
(***************************************************************************)
\* the options of the task selector that are modelled
TaskTypes == {"jira", "gcp_storage"}

\* the integers passed to AICoach.setStep
StepArgs == -1..9

\* a timer handle or stream id not in use
FreshId(used) == CHOOSE k \in 1..MaxStarts : k \notin used

Max(a, b) == IF a >= b THEN a ELSE b

Min(a, b) == IF a <= b THEN a ELSE b

\* setStep storing its argument as it is
NoClamp(step) == step

\* Math.max(1, Math.min(7, step))
Clamp(step) == Max(1, Min(7, step))

\* startMonitoring up to its await: nothing when already monitoring, else
\* getDisplayMedia is asked for the screen
startMonitoring ==
  /\ startCalls < MaxStarts
  /\ startCalls' = startCalls + 1
  /\ pendingStarts' = IF isMonitoring THEN pendingStarts ELSE pendingStarts + 1
  /\ UNCHANGED <<isMonitoring, captureInterval, mediaStream, currentStep, taskType,
                 activeTimers, liveStreams, lastSetStep>>
  /\ UNCHANGED exceptWidget

\* the body of stopMonitoring: the timer held in captureInterval is cleared,
\* the tracks of the stream held in mediaStream are stopped
Stopped ==
  /\ activeTimers' = activeTimers \ {captureInterval}
  /\ captureInterval' = 0
  /\ liveStreams' = liveStreams \ {mediaStream}
  /\ mediaStream' = 0
  /\ isMonitoring' = FALSE

\* getDisplayMedia resolves for one waiting call: the stream is stored,
\* isMonitoring is set and the capture timer is started and stored
PermissionGranted ==
  /\ pendingStarts > 0
  /\ pendingStarts' = pendingStarts - 1
  /\ LET s == FreshId(liveStreams)
         t == FreshId(activeTimers)
     IN /\ mediaStream' = s
        /\ liveStreams' = liveStreams \cup {s}
        /\ isMonitoring' = TRUE
        /\ captureInterval' = t
        /\ activeTimers' = activeTimers \cup {t}
  /\ UNCHANGED <<currentStep, taskType, startCalls, lastSetStep>>
  /\ UNCHANGED exceptWidget

\* getDisplayMedia rejects for one waiting call: the catch block calls
\* stopMonitoring
PermissionDenied ==
  /\ pendingStarts > 0
  /\ pendingStarts' = pendingStarts - 1
  /\ Stopped
  /\ UNCHANGED <<currentStep, taskType, startCalls, lastSetStep>>
  /\ UNCHANGED exceptWidget

\* AICoach.stop() or the stop button
stopMonitoring ==
  /\ Stopped
  /\ UNCHANGED <<currentStep, taskType, pendingStarts, startCalls, lastSetStep>>
  /\ UNCHANGED exceptWidget

\* AICoach.setStep(step)
setStep(step) ==
  /\ currentStep' = Clamp(step)
  /\ lastSetStep' = <<step>>
  /\ UNCHANGED <<isMonitoring, captureInterval, mediaStream, taskType, pendingStarts,
                 activeTimers, liveStreams, startCalls>>
  /\ UNCHANGED exceptWidget

\* click on the previous-step button
PrevStep ==
  /\ currentStep' = IF currentStep > 1 THEN currentStep - 1 ELSE currentStep
  /\ UNCHANGED <<isMonitoring, captureInterval, mediaStream, taskType, pendingStarts,
                 activeTimers, liveStreams, startCalls, lastSetStep>>
  /\ UNCHANGED exceptWidget

\* click on the next-step button
NextStep ==
  /\ currentStep' = IF currentStep < 7 THEN currentStep + 1 ELSE currentStep
  /\ UNCHANGED <<isMonitoring, captureInterval, mediaStream, taskType, pendingStarts,
                 activeTimers, liveStreams, startCalls, lastSetStep>>
  /\ UNCHANGED exceptWidget

\* another task is chosen in the selector, which is disabled from the start
\* of monitoring until stopMonitoring
TaskChange(t) ==
  /\ ~isMonitoring
  /\ t # taskType
  /\ taskType' = t
  /\ currentStep' = 1
  /\ UNCHANGED <<isMonitoring, captureInterval, mediaStream, pendingStarts,
                 activeTimers, liveStreams, startCalls, lastSetStep>>
  /\ UNCHANGED exceptWidget

WidgetNext ==
  \/ startMonitoring
  \/ PermissionGranted
  \/ PermissionDenied
  \/ stopMonitoring
  \/ \E step \in StepArgs : setStep(step)
  \/ PrevStep
  \/ NextStep
  \/ \E t \in TaskTypes : TaskChange(t)

SpecWidget == Init /\ [][WidgetNext]_wvars

WidgetTypeOK ==
  /\ isMonitoring \in BOOLEAN
  /\ captureInterval \in 0..MaxStarts
  /\ mediaStream \in 0..MaxStarts
  /\ taskType \in TaskTypes
  /\ pendingStarts \in 0..MaxStarts
  /\ activeTimers \subseteq 1..MaxStarts
  /\ liveStreams \subseteq 1..MaxStarts
  /\ startCalls \in 0..MaxStarts
  /\ lastSetStep \in {<<>>} \cup {<<step>> : step \in StepArgs}

(***************************************************************************)
(* Properties.                                                             *)
(***************************************************************************)
Runs == 1..Len(usageTracking)

\* the step ingests an event of kind ev for the run stored at place i: the
\* handler appends it to that run's log
Ingests(i, ev) ==
  /\ i \in 1..Len(usageTracking')
  /\ usageTracking'[i].extensionEvents = Append(usageTracking[i].extensionEvents, ev)

\* the run's flags and timestamps
Flags(tr) ==
  [extensionActivated |-> tr.extensionActivated,
   trainingInProgress |-> tr.trainingInProgress,
   trainingCompleted |-> tr.trainingCompleted,
   firstActivationAt |-> tr.firstActivationAt,
   trainingCompletedAt |-> tr.trainingCompletedAt]

\* the three flags alone
Booleans(tr) ==
  <<tr.extensionActivated, tr.trainingInProgress, tr.trainingCompleted>>

\* the frames written so far on every stream
AllFrames(rs) == [r \in 1..Len(rs) |-> rs[r].frames]

\* C1: the activation transition happens at most once per run.  An
\* extension_activated event ingested for a run that is not yet activated sets
\* extensionActivated and trainingInProgress, records firstActivationAt, writes
\* the poll snapshot and pushes 'opened completed' and 'onboarding running' on
\* the session it finds; ingested for a run that is already activated, under
\* any casing of the participant id, it leaves the flags, firstActivationAt,
\* every poll snapshot and every stream as they were.
ActivationOnce ==
  [][\A i \in Runs :
       Ingests(i, "extension_activated") =>
         IF usageTracking[i].extensionActivated
         THEN /\ Flags(usageTracking'[i]) = Flags(usageTracking[i])
              /\ workflowStates' = workflowStates
              /\ AllFrames(reqs') = AllFrames(reqs)
         ELSE /\ usageTracking'[i].extensionActivated
              /\ usageTracking'[i].trainingInProgress
              /\ usageTracking'[i].firstActivationAt = <<now'>>
              /\ \E q \in LookupEmails :
                   /\ FindIndex(usageTracking, q) = i
                   /\ workflowStates' =
                        [workflowStates EXCEPT ![q] = <<ActivationSnapshot(now')>>]
                   /\ reqs' = IF FindIndex(activeSessions, q) # 0
                              THEN WriteFrames(reqs,
                                     activeSessions[FindIndex(activeSessions, q)].chan,
                                     <<Frame("opened", "completed"),
                                       Frame("onboarding", "running")>>)
                              ELSE reqs
    ]_vars

\* C1 witness: the run created for "User@Co.com" has ingested two activation
\* events sent as "user@co.com"; the first one, at time 2, activated it.
ActivatedTwiceDelivered ==
  \E i \in Runs :
    /\ usageTracking[i].key = "User@Co.com"
    /\ usageTracking[i].extensionEvents = <<"extension_activated", "extension_activated">>
    /\ usageTracking[i].extensionActivated
    /\ usageTracking[i].firstActivationAt = <<2>>
    /\ workflowStates["user@co.com"] = <<ActivationSnapshot(2)>>
    /\ now = 3

\* C2: in every reachable state, a run with trainingCompleted = true has
\* trainingInProgress = false.
CompletedNotInProgress ==
  \A i \in Runs :
    usageTracking[i].trainingCompleted => ~usageTracking[i].trainingInProgress

\* C3: a training_completed event ingested for a run that was never activated
\* does not set trainingCompleted, records no completion timestamp and pushes
\* no frames.
CompletionNeedsActivation ==
  [][\A i \in Runs :
       (Ingests(i, "training_completed") /\ ~usageTracking[i].extensionActivated) =>
         /\ usageTracking'[i].trainingCompleted = usageTracking[i].trainingCompleted
         /\ usageTracking'[i].trainingCompletedAt = usageTracking[i].trainingCompletedAt
         /\ AllFrames(reqs') = AllFrames(reqs)
    ]_vars

\* C4: once a run exists under key k, event ingestion, task retrieval and the
\* poll/read endpoints, called with any key that differs from k only in letter
\* case, resolve to that run and never answer NotFound.
CaseInsensitiveLookup ==
  \A i \in Runs : \A q \in LookupEmails :
    (toLowerCase(q) = toLowerCase(usageTracking[i].key) /\ ~MapHas(usageTracking, q)) =>
      /\ TrackLookup(q).status = 200
      /\ ExtensionTasks(q).status = 200
      /\ WorkflowState(q).status = 200
      /\ ExtensionState(q).status = 200
      /\ ExtensionConfig(q).status = 200

\* no initiation for participant id e has failed
NoneFailed(e) ==
  \A r \in 1..Len(reqs) : reqs[r].email = e => reqs[r].pc # "failed"

\* C5: after any state change published for a run (its initiation not having
\* failed), the snapshot that GET /workflow/state returns for the run shows the
\* step and status published last.
PollMatchesPush ==
  \A i \in Runs :
    LET k == usageTracking[i].key
    IN (lastPub[k] # <<>> /\ NoneFailed(k)) =>
         /\ WorkflowState(k).status = 200
         /\ <<WorkflowState(k).workflowState.step,
              WorkflowState(k).workflowState.status>> = lastPub[k][1]

\* C6: a state change published for a run while no live session is attached
\* to it is observable by poll: after the step, GET /workflow/state shows it.
DetachedChangesPolled ==
  [][\A e \in OnboardEmails :
       (/\ lastPub'[e] # lastPub[e]
        /\ ~MapHas(activeSessions, e)
        /\ MapHas(usageTracking', e)
        /\ NoneFailed(e)') =>
         LET ws == [step |-> IF workflowStates'[e] # <<>>
                             THEN workflowStates'[e][1].step ELSE "opened",
                    status |-> IF workflowStates'[e] # <<>>
                               THEN workflowStates'[e][1].status ELSE "running"]
         IN <<ws.step, ws.status>> = lastPub'[e][1]
    ]_vars

\* the place of a phase in analyzing, generating, sending, opened, onboarding,
\* onboarded; 0 for the 'done' and 'error' frames
PhaseRank(step) ==
  CASE step = "analyzing" -> 1
    [] step = "generating" -> 2
    [] step = "sending" -> 3
    [] step = "opened" -> 4
    [] step = "onboarding" -> 5
    [] step = "onboarded" -> 6
    [] OTHER -> 0

\* C7: on every live channel no frame of an earlier phase is written after a
\* frame of a later phase.
PhaseOrder ==
  \A r \in 1..Len(reqs) :
    \A i, j \in 1..Len(reqs[r].frames) :
      (i < j /\ PhaseRank(reqs[r].frames[i][1]) # 0 /\ PhaseRank(reqs[r].frames[j][1]) # 0) =>
        PhaseRank(reqs[r].frames[i][1]) <= PhaseRank(reqs[r].frames[j][1])

\* C8: a channel the server has closed, its client still connected, carries a
\* 'done' or 'error' frame as its last data frame.
TerminatedByFinalFrame ==
  \A r \in 1..Len(reqs) :
    (reqs[r].ended /\ ~reqs[r].closed) =>
      reqs[r].frames[Len(reqs[r].frames)][1] \in {"done", "error"}

\* C9: no ingested event, of any kind, sets extensionActivated or
\* trainingCompleted of the run it is ingested for back to false.
FlagsMonotonic ==
  [][\A i \in Runs : \A ev \in EventKinds \cup {NoEvent} :
       Ingests(i, ev) =>
         /\ usageTracking[i].extensionActivated => usageTracking'[i].extensionActivated
         /\ usageTracking[i].trainingCompleted => usageTracking'[i].trainingCompleted
    ]_vars

\* C9 witness: a training_completed event was ingested for a run that was
\* already activated, and the run is activated and completed.
CompletedAfterActivation ==
  \E i \in Runs :
    /\ usageTracking[i].extensionEvents = <<"extension_activated", "training_completed">>
    /\ usageTracking[i].extensionActivated
    /\ usageTracking[i].trainingCompleted

\* C10: a training_completed event ingested for a run that is already
\* completed changes no flag of the run and pushes no frame.
CompletionOnce ==
  [][\A i \in Runs :
       (Ingests(i, "training_completed") /\ usageTracking[i].trainingCompleted) =>
         /\ Booleans(usageTracking'[i]) = Booleans(usageTracking[i])
         /\ AllFrames(reqs') = AllFrames(reqs)
    ]_vars

\* C11: the timestamps createdAt, firstActivationAt and trainingCompletedAt
\* of a run are set once: an event ingested for the run changes none of them
\* that already has a value.
TimestampsSetOnce ==
  [][\A i \in Runs : \A ev \in EventKinds \cup {NoEvent} :
       Ingests(i, ev) =>
         /\ usageTracking'[i].createdAt = usageTracking[i].createdAt
         /\ usageTracking[i].firstActivationAt # <<>> =>
              usageTracking'[i].firstActivationAt = usageTracking[i].firstActivationAt
         /\ usageTracking[i].trainingCompletedAt # <<>> =>
              usageTracking'[i].trainingCompletedAt = usageTracking[i].trainingCompletedAt
    ]_vars

\* C12: in every reachable state, a run with extensionActivated = false has
\* no firstActivationAt.
ActivationStampNeedsFlag ==
  \A i \in Runs :
    ~usageTracking[i].extensionActivated => usageTracking[i].firstActivationAt = <<>>

\* C12 witness: a run that has ingested events, a completion among them, and
\* is still not activated: it has no firstActivationAt.
UnactivatedAfterEvents ==
  \E i \in Runs :
    /\ usageTracking[i].extensionEvents = <<"step_completed", "training_completed">>
    /\ ~usageTracking[i].extensionActivated
    /\ usageTracking[i].firstActivationAt = <<>>

\* the participant id e has an active, non-terminal run: a live session, or a
\* tracking record that is not completed
ActiveRun(e) ==
  \/ MapHas(activeSessions, e)
  \/ /\ MapHas(usageTracking, e)
     /\ ~usageTracking[MapIndex(usageTracking, e)].trainingCompleted

\* C13: POST /onboard for a participant id that has an active, non-terminal
\* run is refused: the step starts no initiation (no stream is opened, no timer
\* set) and leaves the session registry and the run records as they were.
NoDuplicateRun ==
  [][\A e \in OnboardEmails :
       (ActiveRun(e) /\ Onboard(e)) =>
         /\ reqs' = reqs
         /\ timers' = timers
         /\ activeSessions' = activeSessions
         /\ usageTracking' = usageTracking
    ]_vars

\* C14: in every reachable state there is at most one run record and at most
\* one live session per case-normalized participant identity.
OneRunPerIdentity ==
  /\ \A i, j \in Runs :
       toLowerCase(usageTracking[i].key) = toLowerCase(usageTracking[j].key) => i = j
  /\ \A i, j \in 1..Len(activeSessions) :
       toLowerCase(activeSessions[i].key) = toLowerCase(activeSessions[j].key) => i = j

\* C15: a request whose initiation has failed has its stream ended and no
\* session left on it, no 'done' frame was sent on its stream, and, unless the
\* client has gone, the last frame of the stream is the error frame with
\* status failed.
FailureEndsWithError ==
  \A r \in 1..Len(reqs) :
    reqs[r].pc = "failed" =>
      /\ reqs[r].ended
      /\ \A i \in 1..Len(activeSessions) : activeSessions[i].chan # r
      /\ \A n \in 1..Len(reqs[r].frames) : reqs[r].frames[n][1] # "done"
      /\ reqs[r].closed \/ reqs[r].frames[Len(reqs[r].frames)] = Frame("error", "failed")

\* s is an initial part of t
IsPrefix(s, t) == Len(s) <= Len(t) /\ SubSeq(t, 1, Len(s)) = s

\* C16: the close of the initiating connection before the initiation has
\* finished only detaches the session.  The closing step removes the session
\* and changes neither the position of the pipeline nor any run record; a
\* pipeline whose connection is closed can still take each of its steps; its
\* STEP 2 still stores the run record; and an event sent afterwards is
\* ingested and its flags are what GET /workflow/state returns.
DetachIsNotFailure ==
  /\ [][\A r \in 1..Len(reqs) :
          (~reqs[r].closed /\ reqs'[r].closed) =>
            /\ reqs'[r].pc = reqs[r].pc
            /\ usageTracking' = usageTracking
            /\ \A i \in 1..Len(activeSessions') : activeSessions'[i].chan # r
       ]_vars
  /\ [](\A r \in 1..Len(reqs) :
          reqs[r].closed =>
            /\ reqs[r].pc = "analyzing" => ENABLED TimerFire
            /\ reqs[r].pc = "generating" => ENABLED PipeGenerate(r, TRUE, TRUE)
            /\ reqs[r].pc = "email" => ENABLED PipeEmail(r, TRUE))
  /\ [][\A r \in 1..Len(reqs) :
          (reqs[r].closed /\ reqs[r].pc = "generating" /\ reqs'[r].pc = "email") =>
            /\ MapHas(usageTracking', reqs[r].email)
            /\ usageTracking'[MapIndex(usageTracking', reqs[r].email)] = NewTracking(reqs[r].email)
       ]_vars
  /\ [](\A i \in Runs :
          now < MaxRequests => ENABLED TrackFound(usageTracking[i].key, "extension_activated"))
  /\ [][\A i \in Runs : \A ev \in EventKinds :
          Ingests(i, ev) =>
            /\ WorkflowState(usageTracking[i].key)'.status = 200
            /\ WorkflowState(usageTracking[i].key)'.tracking = Flags(usageTracking'[i])
       ]_vars

\* C16 witness: the client of the first request went away before the first
\* frame after 'analyzing running' was written; the initiation went on past
\* STEP 2, and the run it stored has been activated by an event and the poll
\* shows it.
DetachedRunActivated ==
  /\ Len(reqs) >= 1
  /\ reqs[1].closed
  /\ reqs[1].frames = <<Frame("analyzing", "running")>>
  /\ reqs[1].pc \in {"email", "done"}
  /\ MapHas(usageTracking, reqs[1].email)
  /\ usageTracking[MapIndex(usageTracking, reqs[1].email)].extensionActivated
  /\ WorkflowState(reqs[1].email).tracking.extensionActivated

\* C17: an event accepted by POST /track/extension-usage is appended at the
\* end of the log of the run it resolves to, whatever its kind and whether or
\* not it changes a flag; and no step removes, reorders or modifies entries of
\* a run's log: the log of every run record only grows at its end, until
\* POST /onboard stores a new run in its place.
EventsAppendedInOrder ==
  [][/\ \A q \in LookupEmails : \A ev \in EventKinds \cup {NoEvent} :
          (FindIndex(usageTracking, q) # 0 /\ Track(q, ev)) =>
            LET i == FindIndex(usageTracking, q)
            IN /\ Len(usageTracking') = Len(usageTracking)
               /\ usageTracking'[i].extensionEvents =
                    Append(usageTracking[i].extensionEvents, ev)
     /\ \A i \in Runs :
          /\ i \in 1..Len(usageTracking')
          /\ \/ IsPrefix(usageTracking[i].extensionEvents, usageTracking'[i].extensionEvents)
             \/ \E r \in 1..Len(reqs) :
                  /\ reqs[r].pc = "generating"
                  /\ reqs'[r].pc # "generating"
                  /\ usageTracking'[i] = NewTracking(reqs[r].email)
    ]_vars

\* C17 witness: a run has ingested the event that activated it and then an
\* event that changed no flag, and its log holds the two in that order.
TwoEventsLogged ==
  \E i \in Runs :
    /\ usageTracking[i].extensionEvents = <<"extension_activated", "step_completed">>
    /\ usageTracking[i].extensionActivated
    /\ usageTracking[i].firstActivationAt = <<now - 1>>

\* C18: an event whose participant id matches no run, by exact match or
\* case-insensitively, is answered 404 and changes no run record, event log,
\* poll snapshot, session or stream.
UnknownParticipantNotFound ==
  [][\A q \in LookupEmails \cup {NoEmail} : \A ev \in EventKinds \cup {NoEvent} :
       (/\ \A i \in Runs : toLowerCase(usageTracking[i].key) # toLowerCase(q)
        /\ Track(q, ev)) =>
         /\ TrackLookup(q) = NotFound
         /\ UNCHANGED <<usageTracking, workflowStates, activeSessions, reqs, timers, lastPub>>
    ]_vars

\* C18 witness: one initiation has stored its run and one more request has
\* been served, which left no trace: an event for a participant id without a
\* run, answered 404.
NotFoundServed ==
  /\ now = 2
  /\ Len(reqs) = 1
  /\ Len(usageTracking) = 1
  /\ usageTracking[1].extensionEvents = <<>>
  /\ \A n \in 1..Len(reqs[1].frames) : reqs[1].frames[n][1] # "opened"
  /\ timers = <<>>
  /\ reqs[1].pc = "email"
  /\ TrackLookup("other@co.com") = NotFound

\* C19: an event without participant id or without event kind is rejected:
\* it is not answered as tracked and changes no run record (flags and event
\* log) and no poll snapshot.
MalformedEventRejected ==
  [][\A q \in LookupEmails \cup {NoEmail} : \A ev \in EventKinds \cup {NoEvent} :
       ((q = NoEmail \/ ev = NoEvent) /\ Track(q, ev)) =>
         /\ TrackLookup(q).status # 200
         /\ UNCHANGED <<usageTracking, workflowStates>>
    ]_vars

\* C20: a step of the client agent marks at most one sub-instruction done,
\* and the one it marks is the lowest-numbered one of the current task that
\* was not done; so the done sub-instructions are always 1..k for some k.
OneSubStepInOrder ==
  /\ [][\A k \in completedSubInstructions' \ completedSubInstructions :
          /\ completedSubInstructions' = completedSubInstructions \cup {k}
          /\ stepCount <= Len(tasks)
          /\ k \in 1..tasks[stepCount]
          /\ \A j \in 1..(k - 1) : j \in completedSubInstructions
       ]_avars
  /\ [](completedSubInstructions = 1..Cardinality(completedSubInstructions))

\* C20 witness: two evaluations have each marked one sub-instruction of the
\* first task, which has three.
TwoSubStepsDone ==
  /\ Len(tasks) >= 1
  /\ tasks[1] = 3
  /\ stepCount = 1
  /\ completedSubInstructions = {1, 2}

\* the feedback text of the response has a strong-completion pattern: great!,
\* perfect!, excellent! or done! together with 'step', or 'completed' together
\* with '!'
StrongPattern(resp) ==
  /\ resp.feedback # <<>>
  /\ \/ /\ "step" \in resp.feedback[1]
        /\ {"great!", "perfect!", "excellent!", "done!"} \cap resp.feedback[1] # {}
     \/ {"completed", "!"} \subseteq resp.feedback[1]

\* proof is present in the response: a proof field of more than 10
\* characters, or 'proof:' inside the feedback
ProofPresent(resp) ==
  \/ resp.proof > 10
  \/ resp.feedback # <<>> /\ "proof:" \in resp.feedback[1]

\* C21: an evaluation marks a sub-instruction done only if its feedback text
\* has a strong-completion pattern and proof is present.  In every reachable
\* state and for every response, what the handling of the response makes of
\* the set of done sub-instructions is: the set as it is when either condition
\* fails, and the set with the first not-done sub-instruction of the current
\* task added when both hold.  And the set changes in no other way, except
\* that the task advance empties it.
StrongWithProof ==
  /\ [](\A resp \in Responses :
          LET n == IF stepCount <= Len(tasks) THEN tasks[stepCount] ELSE 0
              open == (1..n) \ completedSubInstructions
          IN IF StrongPattern(resp) /\ ProofPresent(resp) /\ open # {}
             THEN \E k \in open :
                    /\ \A j \in open : k <= j
                    /\ Completed(resp) = completedSubInstructions \cup {k}
             ELSE Completed(resp) = completedSubInstructions)
  /\ [][completedSubInstructions' # completedSubInstructions =>
          \/ completedSubInstructions' = {} /\ advanceTimers' = advanceTimers - 1
          \/ /\ Len(analyses') = Len(analyses) - 1
             /\ \E resp \in Responses :
                  /\ resp.ok /\ StrongPattern(resp) /\ ProofPresent(resp)
                  /\ completedSubInstructions' = Completed(resp)
       ]_avars

\* C21 witness: of the three sub-instructions of the only task the first one
\* has been marked done, the other two have not, and no evaluation is under
\* way.
FirstSubStepDone ==
  /\ tasks = <<3>>
  /\ stepCount = 1
  /\ completedSubInstructions = {1}
  /\ analyses = <<>>
  /\ ~analysisInProgress

\* C22: the client agent moves past a task only when every sub-instruction
\* of that task is done: a step that changes stepCount starts or ends with all
\* sub-instructions of the task it leaves marked.
AdvanceNeedsAllSubSteps ==
  [][stepCount' # stepCount =>
       /\ stepCount <= Len(tasks)
       /\ \/ completedSubInstructions = 1..tasks[stepCount]
          \/ completedSubInstructions' = 1..tasks[stepCount]
    ]_avars

\* C23: tasks are completed left to right with no skipping: stepCount has
\* moved past no more tasks than have had all their sub-instructions marked.
NoTaskSkipped ==
  stepCount - 1 <= tasksCompleted

\* C24: a task without sub-instructions is completed when the completion
\* signal arrives: an evaluation whose response carries taskComplete = true
\* while the current task has no sub-instructions advances the task (at once
\* on the last task, else by setting the task advance).
NoSubStepsTaskCompletes ==
  [][\A a \in 1..Len(analyses) : \A resp \in Responses :
       (/\ stepCount <= Len(tasks)
        /\ tasks[stepCount] = 0
        /\ resp.ok /\ resp.taskComplete
        /\ Respond(a, resp)) =>
         \/ stepCount' = stepCount + 1
         \/ advanceTimers' = advanceTimers + 1
    ]_avars

\* C25: an evaluation whose response has no feedback text, or whose analysis
\* fails, marks no sub-instruction, advances no task (neither at once nor by
\* setting a task advance) and clears the in-progress flag.
FailedAnalysisChangesNothing ==
  [][/\ \A a \in 1..Len(analyses) : \A resp \in Responses :
          ((~resp.ok \/ resp.feedback = <<>>) /\ Respond(a, resp)) =>
            /\ completedSubInstructions' = completedSubInstructions
            /\ stepCount' = stepCount
            /\ advanceTimers' = advanceTimers
            /\ ~analysisInProgress'
     /\ \A a \in 1..Len(analyses) : \A shot \in {"none", "same"} :
          Screenshot(a, shot) =>
            /\ completedSubInstructions' = completedSubInstructions
            /\ stepCount' = stepCount
            /\ advanceTimers' = advanceTimers
            /\ ~analysisInProgress'
    ]_avars

\* the moves of a node status the dashboard is meant to show
AllowedTransitions ==
  {<<"pending", "running">>, <<"running", "completed">>,
   <<"running", "failed">>, <<"failed", "running">>}

\* C26: within one run of the dashboard's workflow (a new submission resets the
\* graph) the status of a node only moves pending -> running, running ->
\* completed, running -> failed or failed -> running: a progress frame or a
\* poll result asking for any other move leaves the workflow as it was.
NodeTransitionsValid ==
  [][\/ ~streamOpen /\ streamOpen'
     \/ \A n \in DashNodes :
          \/ workflow'.nodes[n] = workflow.nodes[n]
          \/ <<workflow.nodes[n], workflow'.nodes[n]>> \in AllowedTransitions
    ]_dvars

\* C27: a run's extensionActivated becomes true only in a step that ingests an
\* extension_activated event for it, and its trainingCompleted only in a step
\* that ingests a training_completed event; a run record is created with both
\* false; and a step that ingests an event of any other kind leaves the three
\* flags and the two timestamps of the run as they were and changes nothing of
\* the record but its event log, which gets the event appended.
FlagsFollowEvents ==
  [][/\ \A i \in 1..Len(usageTracking') :
          IF i \in Runs
          THEN /\ ~usageTracking[i].extensionActivated /\ usageTracking'[i].extensionActivated
                    => Ingests(i, "extension_activated")
               /\ ~usageTracking[i].trainingCompleted /\ usageTracking'[i].trainingCompleted
                    => Ingests(i, "training_completed")
          ELSE /\ ~usageTracking'[i].extensionActivated
               /\ ~usageTracking'[i].trainingCompleted
     /\ \A i \in Runs :
          \A ev \in (EventKinds \cup {NoEvent}) \ {"extension_activated", "training_completed"} :
            Ingests(i, ev) =>
              /\ Flags(usageTracking'[i]) = Flags(usageTracking[i])
              /\ usageTracking'[i] = LogEvent(usageTracking[i], ev)
    ]_vars

\* C27 witness: a run that ingested step_completed and then training_completed:
\* the first left every flag and timestamp alone, the second set
\* trainingCompleted and its timestamp, and extensionActivated is still false.
OtherEventThenCompleted ==
  \E i \in Runs :
    /\ usageTracking[i].extensionEvents = <<"step_completed", "training_completed">>
    /\ ~usageTracking[i].extensionActivated
    /\ usageTracking[i].firstActivationAt = <<>>
    /\ usageTracking[i].trainingCompleted
    /\ usageTracking[i].trainingCompletedAt = <<now>>

\* C28: at most one capture timer is active at any time, and a call of
\* stopMonitoring leaves the widget not monitoring with no capture timer
\* active, whatever the interleaving of start and stop calls and of the
\* answers to the screen-capture permission requests.
OneTimerStoppedByStop ==
  /\ [](Cardinality(activeTimers) <= 1)
  /\ [][stopMonitoring => ~isMonitoring' /\ activeTimers' = {}]_wvars

\* C29: currentStep is always in 1..7; setStep with an integer stores the
\* integer clamped to 1..7, the previous and next buttons move by at most one
\* inside the range, and a change of task sets the step to 1.
StepInRange ==
  /\ [](currentStep \in 1..7)
  /\ [][/\ \A step \in StepArgs :
            setStep(step) =>
              currentStep' = IF step < 1 THEN 1 ELSE IF step > 7 THEN 7 ELSE step
        /\ PrevStep => currentStep' \in {currentStep, currentStep - 1}
        /\ NextStep => currentStep' \in {currentStep, currentStep + 1}
        /\ \A t \in TaskTypes : TaskChange(t) => currentStep' = 1
       ]_wvars

\* C29 witness: setStep(9) was the last setStep call and the step shown is 7,
\* on a task other than the initial one.
StepClampedToLast ==
  /\ lastSetStep = <<9>>
  /\ currentStep = 7
  /\ taskType = "gcp_storage"

\* request r of POST /onboard completes, fails or loses its client in the step
Finishes(r) ==
  \/ reqs[r].pc \notin {"done", "failed"} /\ reqs'[r].pc \in {"done", "failed"}
  \/ ~reqs[r].closed /\ reqs'[r].closed

\* C30: a session registered by a POST /onboard is not removed from
\* activeSessions in a step in which an older POST /onboard for the same
\* participant completes, fails or loses its client.
NewerSessionSurvives ==
  [][\A k \in 1..Len(activeSessions) :
       LET s == activeSessions[k]
       IN (\A j \in 1..Len(activeSessions') : activeSessions'[j].chan # s.chan) =>
            ~\E r \in 1..(s.chan - 1) : reqs[r].email = s.key /\ Finishes(r)
    ]_vars

\* the step writes a frame on the response of request r: a step of r's own
\* pipeline (each of them calls sendProgress or res.write), or the delayed
\* callback of POST /extension-opened set for that response
WritesTo(r) ==
  \/ reqs'[r].pc # reqs[r].pc
  \/ /\ timers # <<>>
     /\ timers' = Tail(timers)
     /\ Head(timers).kind = "opened"
     /\ Head(timers).chan = r

\* C31: once the response of a POST /onboard has been ended or its client has
\* gone, no step writes on it again: neither the pipeline of that request,
\* which is still running, nor a delayed callback.
NoWriteAfterClose ==
  [][\A r \in 1..Len(reqs) : reqs[r].ended \/ reqs[r].closed => ~WritesTo(r)]_vars

\* C32: an event sent with a participant id q that matches run i only
\* case-insensitively has its delivery effects on run i: the snapshot written
\* by the activation is the one a poll with the run's stored key reads, and the
\* completion frames are pushed on the open stream of the session stored under
\* the run's key.
EffectsLandOnMatchedRun ==
  [][\A q \in LookupEmails : \A i \in Runs :
       LET k == usageTracking[i].key
       IN (~MapHas(usageTracking, q) /\ FindIndex(usageTracking, q) = i) =>
            /\ (Track(q, "extension_activated") /\ ~usageTracking[i].extensionActivated) =>
                 workflowStates'[k] = <<ActivationSnapshot(now')>>
            /\ (/\ Track(q, "training_completed")
                /\ MapHas(activeSessions, k)
                /\ LET c == activeSessions[MapIndex(activeSessions, k)].chan
                   IN ~reqs[c].ended /\ ~reqs[c].closed) =>
                 LET c == activeSessions[MapIndex(activeSessions, k)].chan
                 IN reqs'[c].frames = reqs[c].frames \o <<Frame("onboarding", "completed"),
                                                          Frame("onboarded", "completed")>>
    ]_vars

\* the backend with its scheduling: every external call awaited by a pipeline
\* returns or fails, and every timer that was set fires
SpecLive ==
  /\ Spec
  /\ WF_vars(\E r \in 1..MaxRequests, ok \in BOOLEAN, calOk \in BOOLEAN : PipeGenerate(r, ok, calOk))
  /\ WF_vars(\E r \in 1..MaxRequests, ok \in BOOLEAN : PipeEmail(r, ok))
  /\ WF_vars(TimerFire)

\* the stream of request r is terminated: a final 'done' or 'error' frame was
\* written on it, it is ended and no session in activeSessions holds it
Terminated(r) ==
  /\ reqs[r].ended
  /\ reqs[r].frames # <<>>
  /\ reqs[r].frames[Len(reqs[r].frames)][1] \in {"done", "error"}
  /\ \A k \in 1..Len(activeSessions) : activeSessions[k].chan # r

\* C33: every accepted POST /onboard whose client stays connected eventually
\* has its stream terminated: a 'done' or 'error' frame written, the response
\* ended and its session removed.
StreamTerminates ==
  \A r \in 1..MaxRequests :
    (r <= Len(reqs)) ~> (r <= Len(reqs) /\ (Terminated(r) \/ reqs[r].closed))

\* C34: at most one call of analyzeWithAI is between setting and clearing
\* analysisInProgress at any time.
OneAnalysisInFlight == Len(analyses) <= 1

\* C35: a sub-instruction k of the current task is marked done only in the
\* step that processes the response of a request sent for sub-step k of that
\* task.
MarkedAsRequested ==
  [][\A k \in 1..MaxSubs :
       (k \notin completedSubInstructions /\ k \in completedSubInstructions') =>
         \E a \in 1..Len(analyses) :
           /\ analyses[a].pc = "fetch"
           /\ analyses' = RemoveAt(analyses, a)
           /\ analyses[a].task = stepCount
           /\ analyses[a].sub = k
    ]_avars

\* C36: the client agent reports completion at most once, and the report is
\* made in a step that finds every sub-instruction of the last task done.
CompletionReportedOnce ==
  /\ [](completionReports <= 1)
  /\ [][completionReports' # completionReports =>
          /\ completionReports = 0
          /\ completionReports' = 1
          /\ stepCount = Len(tasks)
          /\ completedSubInstructions' = 1..tasks[Len(tasks)]
          /\ tasks[Len(tasks)] > 0
       ]_avars

\* C36 witness: completion was reported after the second of two tasks.
ReportedAfterTwoTasks ==
  /\ completionReports = 1
  /\ Len(tasks) = 2
  /\ stepCount = 3
  /\ completedSubInstructions = 1..tasks[2]
  /\ tasksCompleted = 2

\* C37: while the request of the run being initiated is open, the dashboard
\* does not show node 'onboarded' completed unless node 'sending' of that run
\* is completed.
OnboardedAfterSending ==
  (streamOpen /\ workflow.nodes["onboarded"] = "completed") =>
    workflow.nodes["sending"] = "completed"

\* C38: GET /onboarding/status/:email answers completed = true exactly when
\* POST /onboarding/complete was served for the email after the last reset and
\* the last workflow generation for it, with the completedAt of that call (the
\* server's time when the body has none); an email not marked is answered
\* completed = false and completedAt null; and POST /onboarding/reset of an
\* email that is not marked changes nothing.
StatusFollowsCompletion ==
  /\ [](\A e \in DashEmails :
          /\ OnboardingStatus(e).completed = marked[e]
          /\ ~marked[e] => OnboardingStatus(e).completedAt = "null"
          /\ marked[e] => OnboardingStatus(e).completedAt \in {"client time", "server time"})
  /\ [][\A e \in DashEmails :
          /\ ResetOnboarding(e) =>
                /\ onboardingCompletions'[e] = <<>>
                /\ ~marked[e] => onboardingCompletions' = onboardingCompletions
          /\ \A at \in {<<>>, <<"client time">>} :
                CompleteOnboarding(e, at) =>
                  onboardingCompletions'[e] =
                    <<[completed |-> TRUE,
                       completedAt |-> IF at = <<>> THEN "server time" ELSE "client time"]>>
       ]_<<dvars, cvars>>

\* C38 witness: the dashboard's run for user@co.com has generated its workflow
\* after a completion had been recorded for that email: the status is back to
\* not completed, while the completion of other@co.com is still reported.
CompletionDroppedByGeneration ==
  /\ runEmail = "user@co.com"
  /\ generated
  /\ workflow.nodes["onboarded"] = "completed"
  /\ ~OnboardingStatus("user@co.com").completed
  /\ OnboardingStatus("other@co.com").completed
  /\ OnboardingStatus("other@co.com").completedAt = "server time"
====
